---- MODULE Spec2Model ----
(***************************************************************************)
(* The Camera class of include/learnopengl/camera.h as a state machine.    *)
(*                                                                         *)
(* Number representation.  The class computes in binary32 floats.  The     *)
(* model computes in decimal fixed point:                                  *)
(*   - lengths, directions, radians, times, zoom : integers counting       *)
(*     1/Scale (Scale = 10^6);                                             *)
(*   - Yaw, Pitch and the sensitivity            : integers counting       *)
(*     1/DegScale of a degree (DegScale = 10^4), so that many turns of yaw *)
(*     stay inside TLC's 32-bit integers;                                  *)
(*   - mouse offsets                             : whole numbers.          *)
(* Products and quotients are truncated toward zero, which plays the role  *)
(* of float rounding; sums and differences are exact.  A vector whose      *)
(* components are NaN is the empty tuple NaNVec (the class only ever       *)
(* produces vectors that are NaN in every component or in none).           *)
(***************************************************************************)
EXTENDS Integers, Sequences, FiniteSets, TLC

Scale == 1000 * 1000
DegScale == 100 * 100
Base == 1000

\* ------------------------------------------------------------------------
\* Bounds of the model
\* ------------------------------------------------------------------------
MaxSteps == 2

\* ------------------------------------------------------------------------
\* Scalar arithmetic
\* ------------------------------------------------------------------------
Abs(a) == IF a < 0 THEN -a ELSE a
Sgn(a) == IF a < 0 THEN -1 ELSE 1

\* a * b for a, b >= 0 at Scale: a * b / Scale, by base-1000 long
\* multiplication so that no intermediate leaves 32 bits.
MulU(a, b) ==
    LET ah == a \div Base  al == a % Base
        bh == b \div Base  bl == b % Base
    IN  ah * bh + ((ah * bl + al * bh + (al * bl) \div Base) \div Base)

\* float * float
MulS(a, b) == Sgn(a) * Sgn(b) * MulU(Abs(a), Abs(b))

\* a / b for a >= 0, b > 0 at Scale: a * Scale / b, by three base-100
\* long-division steps.
DivU(a, b) ==
    LET q0 == a \div b            r0 == a % b
        q1 == (r0 * 100) \div b   r1 == (r0 * 100) % b
        q2 == (r1 * 100) \div b   r2 == (r1 * 100) % b
        q3 == (r2 * 100) \div b
    IN  q0 * Scale + q1 * 10000 + q2 * 100 + q3

\* float / float
DivS(a, b) == Sgn(a) * Sgn(b) * DivU(Abs(a), Abs(b))

\* The digits of a * b that MulU drops: (a * b) mod Scale, for a, b >= 0.
MulRem(a, b) ==
    LET ah == a \div Base  al == a % Base
        bh == b \div Base  bl == b % Base
    IN  (((ah * bl + al * bh) % Base) * Base + al * bl) % Scale

\* The largest r in lo..hi with r * r <= q exactly (r * r / Scale <= q at
\* Scale, no digit dropped), by bisection.
RECURSIVE SqrtSearch(_, _, _)
SqrtSearch(q, lo, hi) ==
    IF lo >= hi THEN lo
    ELSE LET mid == (lo + hi + 1) \div 2
             sq == MulU(mid, mid)
         IN  IF sq < q \/ (sq = q /\ MulRem(mid, mid) = 0)
             THEN SqrtSearch(q, mid, hi)
             ELSE SqrtSearch(q, lo, mid - 1)

\* sqrt(q) at Scale
sqrt(q) == SqrtSearch(q, 0, 46000 * Base)

\* ------------------------------------------------------------------------
\* Trigonometry (libm cos / sin on radians at Scale)
\* ------------------------------------------------------------------------
TWO_PI_HI == 6283185
TWO_PI_LO == 307180
PI_S == 3141593
HALF_PI_S == 1570796

\* Argument reduction of x >= 0 into [0, 2 pi), 2 pi = (TWO_PI_HI +
\* TWO_PI_LO / Scale) / Scale.
Reduce(x) ==
    LET k == x \div TWO_PI_HI
    IN  x - k * TWO_PI_HI - (k * TWO_PI_LO) \div Scale

\* sin on [-pi/2, pi/2]: the Taylor polynomial to x^13 in Horner form.
SinPoly(x) ==
    LET x2 == MulS(x, x)
        t6 == Scale - x2 \div 156
        t5 == Scale - MulS(x2, t6) \div 110
        t4 == Scale - MulS(x2, t5) \div 72
        t3 == Scale - MulS(x2, t4) \div 42
        t2 == Scale - MulS(x2, t3) \div 20
        t1 == Scale - MulS(x2, t2) \div 6
    IN  MulS(x, t1)

\* cos on [-pi/2, pi/2]: the Taylor polynomial to x^12 in Horner form.
CosPoly(x) ==
    LET x2 == MulS(x, x)
        t6 == Scale - x2 \div 132
        t5 == Scale - MulS(x2, t6) \div 90
        t4 == Scale - MulS(x2, t5) \div 56
        t3 == Scale - MulS(x2, t4) \div 30
        t2 == Scale - MulS(x2, t3) \div 12
    IN  Scale - MulS(x2, t2) \div 2

sin(x) ==
    LET r == Reduce(Abs(x))
        s == IF r <= HALF_PI_S THEN SinPoly(r)
             ELSE IF r <= PI_S + HALF_PI_S THEN -SinPoly(r - PI_S)
             ELSE SinPoly(r - 2 * PI_S)
    IN  Sgn(x) * s

cos(x) ==
    LET r == Reduce(Abs(x))
    IN  IF r <= HALF_PI_S THEN CosPoly(r)
        ELSE IF r <= PI_S + HALF_PI_S THEN -CosPoly(r - PI_S)
        ELSE CosPoly(r - 2 * PI_S)

\* glm::radians(degrees) = degrees * 0.01745329251994329577: one degree is
\* 17453.29252 / Scale radians.  d is at DegScale, the result at Scale.
radians(d) ==
    LET a == Abs(d)  dh == a \div DegScale  dl == a % DegScale
    IN  Sgn(d) * (dh * 17453 + (dh * 29252 + dl * 174533) \div 100000)

\* #define PI 3.14159
PI == 3141590

\* degree / 180.0f * PI.  d is at DegScale, the result at Scale:
\* (a / 180) * (PI / Scale) * (Scale / DegScale) = k * 314.159 + m * 314.159 / 180
\* with a = 180 * k + m.
degree_to_radian(d) ==
    LET a == Abs(d)
        k == a \div 180   m == a % 180
        kh == k \div Base kl == k % Base
        p == PI \div 10
    IN  Sgn(d) * (kh * p + (kl * p) \div Base + (m * p) \div (180 * Base))

\* ------------------------------------------------------------------------
\* glm::vec3
\* ------------------------------------------------------------------------
NaNVec == << >>
IsNaN(v) == v = NaNVec
vec3(x, y, z) == <<x, y, z>>

\* vec3 + vec3, vec3 - vec3, vec3 * float
VAdd(a, b) == IF IsNaN(a) \/ IsNaN(b) THEN NaNVec
              ELSE <<a[1] + b[1], a[2] + b[2], a[3] + b[3]>>
VSub(a, b) == IF IsNaN(a) \/ IsNaN(b) THEN NaNVec
              ELSE <<a[1] - b[1], a[2] - b[2], a[3] - b[3]>>
VScale(a, s) == IF IsNaN(a) THEN NaNVec
                ELSE <<MulS(a[1], s), MulS(a[2], s), MulS(a[3], s)>>

\* glm::dot of two finite vectors
dot(a, b) == MulS(a[1], b[1]) + MulS(a[2], b[2]) + MulS(a[3], b[3])

\* glm::cross
cross(a, b) ==
    IF IsNaN(a) \/ IsNaN(b) THEN NaNVec
    ELSE <<MulS(a[2], b[3]) - MulS(b[2], a[3]),
           MulS(a[3], b[1]) - MulS(b[3], a[1]),
           MulS(a[1], b[2]) - MulS(b[1], a[2])>>

MaxAbs(v) ==
    LET a == Abs(v[1])  b == Abs(v[2])  c == Abs(v[3])
        ab == IF a > b THEN a ELSE b
    IN  IF ab > c THEN ab ELSE c

\* glm::normalize(v) = v * inversesqrt(dot(v, v)).  The zero vector gives
\* 0 * inf = NaN in every component.  A float keeps its relative precision
\* whatever the magnitude of v, so the fixed-point quotient is taken after
\* bringing the largest component of v to 1.
normalize(v) ==
    IF IsNaN(v) THEN NaNVec
    ELSE IF v = <<0, 0, 0>> THEN NaNVec
    ELSE LET m == MaxAbs(v)
             w == <<DivS(v[1], m), DivS(v[2], m), DivS(v[3], m)>>
             len == sqrt(dot(w, w))
         IN  <<DivS(w[1], len), DivS(w[2], len), DivS(w[3], len)>>

\* ------------------------------------------------------------------------
\* Default camera values
\* ------------------------------------------------------------------------
YAW == -90 * DegScale
PITCH == 0
SPEED == 25 * (Scale \div 10)
SENSITIVITY == DegScale \div 10
ZOOM == 45 * Scale

\* ------------------------------------------------------------------------
\* Inputs of the model
\* ------------------------------------------------------------------------
\* Constructor arguments (position, up, yaw, pitch): the defaults, a camera
\* placed away from the origin, and a camera whose world-up is the x axis
\* and which looks along it.
CtorArgs ==
    { [position |-> vec3(0, 0, 0),         up |-> vec3(0, Scale, 0), yaw |-> YAW, pitch |-> PITCH],
      [position |-> vec3(0, 0, 3 * Scale), up |-> vec3(0, Scale, 0), yaw |-> YAW, pitch |-> PITCH],
      [position |-> vec3(0, 0, 0),         up |-> vec3(Scale, 0, 0), yaw |-> 0,   pitch |-> PITCH] }

Directions == {"FORWARD", "BACKWARD", "LEFT", "RIGHT"}
DeltaTimes == {Scale \div 2}
MouseOffsets == {<<900, 900>>, <<450, -1000>>}
OrbitOffsets == {<<4500, 10000>>, <<-9000, -13500>>, <<1800000, 4500>>}
Targets == {vec3(0, 0, 0), vec3(Scale, 2 * Scale, 3 * Scale)}
ScrollDeltas == {-50 * Scale, 0, Scale, 50 * Scale}

\* ------------------------------------------------------------------------
\* State: the fields of Camera, and a record of the last call
\* ------------------------------------------------------------------------
VARIABLES Position, Front, Up, Right, WorldUp, Yaw, Pitch,
          MovementSpeed, MouseSensitivity, Zoom,
          last,   \* the last call: its name and arguments
          prev,   \* Position, Yaw, Pitch and Zoom when the last call was made
          steps   \* the number of calls made

fields == <<Position, Front, Up, Right, WorldUp, Yaw, Pitch,
            MovementSpeed, MouseSensitivity, Zoom>>
vars == <<Position, Front, Up, Right, WorldUp, Yaw, Pitch,
          MovementSpeed, MouseSensitivity, Zoom, last, prev, steps>>

\* The object as a record.
camera ==
    [Position |-> Position, Front |-> Front, Up |-> Up, Right |-> Right,
     WorldUp |-> WorldUp, Yaw |-> Yaw, Pitch |-> Pitch,
     MovementSpeed |-> MovementSpeed, MouseSensitivity |-> MouseSensitivity,
     Zoom |-> Zoom]

\* ------------------------------------------------------------------------
\* Private helpers of Camera
\* ------------------------------------------------------------------------
\* The unnormalised front vector of updateCameraVectors.
frontOf(yaw, pitch) ==
    vec3(MulS(cos(radians(yaw)), cos(radians(pitch))),
         sin(radians(pitch)),
         MulS(sin(radians(yaw)), cos(radians(pitch))))

\* updateCameraVectors with Right left unnormalised.
updateCameraVectors_RightNotNormalized(c) ==
    LET f == normalize(frontOf(c.Yaw, c.Pitch))
        r == cross(f, c.WorldUp)
        u == normalize(cross(r, f))
    IN  [c EXCEPT !.Front = f, !.Right = r, !.Up = u]

updateCameraVectors(c) ==
    LET f == normalize(frontOf(c.Yaw, c.Pitch))
        r == normalize(cross(f, c.WorldUp))
        u == normalize(cross(r, f))
    IN  [c EXCEPT !.Front = f, !.Right = r, !.Up = u]

\* sqrt(dx*dx + dy*dy + dz*dz); NaN when the camera position is NaN, which is
\* written -1 (no distance is negative).
NaNDist == 0 - 1
distance_from_camera_to_target(camera_position, target_position) ==
    IF IsNaN(camera_position) THEN NaNDist
    ELSE LET d == VSub(camera_position, target_position)
         IN  sqrt(MulS(d[1], d[1]) + MulS(d[2], d[2]) + MulS(d[3], d[3]))

\* ------------------------------------------------------------------------
\* Public operations of Camera, each as the object it leaves behind
\* ------------------------------------------------------------------------
\* Camera(position, up, yaw, pitch): both constructors store their arguments
\* and the defaults and end with updateCameraVectors().
Camera(position, up, yaw, pitch) ==
    updateCameraVectors(
        [Position |-> position, Front |-> vec3(0, 0, -Scale), Up |-> NaNVec,
         Right |-> NaNVec, WorldUp |-> up, Yaw |-> yaw, Pitch |-> pitch,
         MovementSpeed |-> SPEED, MouseSensitivity |-> SENSITIVITY,
         Zoom |-> ZOOM])

\* ProcessKeyboard whose BACKWARD branch adds instead of subtracting.
ProcessKeyboard_BackwardAdds(c, direction, deltaTime) ==
    LET velocity == MulS(c.MovementSpeed, deltaTime)
        p1 == IF direction = "FORWARD"  THEN VAdd(c.Position, VScale(c.Front, velocity)) ELSE c.Position
        p2 == IF direction = "BACKWARD" THEN VAdd(p1, VScale(c.Front, velocity)) ELSE p1
        p3 == IF direction = "LEFT"     THEN VSub(p2, VScale(c.Right, velocity)) ELSE p2
        p4 == IF direction = "RIGHT"    THEN VAdd(p3, VScale(c.Right, velocity)) ELSE p3
    IN  [c EXCEPT !.Position = p4]

ProcessKeyboard(c, direction, deltaTime) ==
    LET velocity == MulS(c.MovementSpeed, deltaTime)
        p1 == IF direction = "FORWARD"  THEN VAdd(c.Position, VScale(c.Front, velocity)) ELSE c.Position
        p2 == IF direction = "BACKWARD" THEN VSub(p1, VScale(c.Front, velocity)) ELSE p1
        p3 == IF direction = "LEFT"     THEN VSub(p2, VScale(c.Right, velocity)) ELSE p2
        p4 == IF direction = "RIGHT"    THEN VAdd(p3, VScale(c.Right, velocity)) ELSE p3
    IN  [c EXCEPT !.Position = p4]

\* ProcessMouseMovement that clamps Pitch before adding the offset.
ProcessMouseMovement_ClampBeforeAdd(c, xoffset, yoffset, constrainPitch) ==
    LET xo == xoffset * c.MouseSensitivity
        yo == yoffset * c.MouseSensitivity
        yaw == c.Yaw + xo
        pitch1 == IF constrainPitch /\ c.Pitch > 89 * DegScale THEN 89 * DegScale ELSE c.Pitch
        pitch2 == IF constrainPitch /\ pitch1 < -89 * DegScale THEN -89 * DegScale ELSE pitch1
    IN  updateCameraVectors([c EXCEPT !.Yaw = yaw, !.Pitch = pitch2 + yo])

ProcessMouseMovement(c, xoffset, yoffset, constrainPitch) ==
    LET xo == xoffset * c.MouseSensitivity
        yo == yoffset * c.MouseSensitivity
        yaw == c.Yaw + xo
        pitch0 == c.Pitch + yo
        pitch1 == IF constrainPitch /\ pitch0 > 89 * DegScale THEN 89 * DegScale ELSE pitch0
        pitch2 == IF constrainPitch /\ pitch1 < -89 * DegScale THEN -89 * DegScale ELSE pitch1
    IN  updateCameraVectors([c EXCEPT !.Yaw = yaw, !.Pitch = pitch2])

\* move_camera_in_sphere without its closing updateCameraVectors().
move_camera_in_sphere_StaleBasis(c, xoffset, yoffset, target_position) ==
    LET factor == (c.MouseSensitivity * (DegScale \div 10)) \div DegScale
        yaw == c.Yaw - xoffset * factor
        pitch == c.Pitch - yoffset * factor
        alpha == degree_to_radian(yaw)
        beta == degree_to_radian(pitch)
        distance == distance_from_camera_to_target(c.Position, target_position)
        x == target_position[1] - MulS(MulS(distance, cos(alpha)), cos(beta))
        y == target_position[2] - MulS(distance, sin(beta))
        z == target_position[3] - MulS(MulS(distance, sin(alpha)), cos(beta))
    IN  [c EXCEPT !.Yaw = yaw, !.Pitch = pitch,
                  !.Position = IF distance = NaNDist THEN NaNVec ELSE vec3(x, y, z)]

\* move_camera_in_sphere whose y component forgets the distance.
move_camera_in_sphere_UnitHeight(c, xoffset, yoffset, target_position) ==
    LET factor == (c.MouseSensitivity * (DegScale \div 10)) \div DegScale
        yaw == c.Yaw - xoffset * factor
        pitch == c.Pitch - yoffset * factor
        alpha == degree_to_radian(yaw)
        beta == degree_to_radian(pitch)
        distance == distance_from_camera_to_target(c.Position, target_position)
        x == target_position[1] - MulS(MulS(distance, cos(alpha)), cos(beta))
        y == target_position[2] - sin(beta)
        z == target_position[3] - MulS(MulS(distance, sin(alpha)), cos(beta))
    IN  updateCameraVectors(
            [c EXCEPT !.Yaw = yaw, !.Pitch = pitch,
                      !.Position = IF distance = NaNDist THEN NaNVec ELSE vec3(x, y, z)])

move_camera_in_sphere(c, xoffset, yoffset, target_position) ==
    LET factor == (c.MouseSensitivity * (DegScale \div 10)) \div DegScale
        yaw == c.Yaw - xoffset * factor
        pitch == c.Pitch - yoffset * factor
        alpha == degree_to_radian(yaw)
        beta == degree_to_radian(pitch)
        distance == distance_from_camera_to_target(c.Position, target_position)
        x == target_position[1] - MulS(MulS(distance, cos(alpha)), cos(beta))
        y == target_position[2] - MulS(distance, sin(beta))
        z == target_position[3] - MulS(MulS(distance, sin(alpha)), cos(beta))
    IN  updateCameraVectors(
            [c EXCEPT !.Yaw = yaw, !.Pitch = pitch,
                      !.Position = IF distance = NaNDist THEN NaNVec ELSE vec3(x, y, z)])

\* move_camera_in_ellipsoid with the 3 : 2 : 2 (x : z : y) axes of its comment.
move_camera_in_ellipsoid_Stretched(c, xoffset, yoffset, target_position) ==
    LET factor == (c.MouseSensitivity * (DegScale \div 10)) \div DegScale
        yaw == c.Yaw - xoffset * factor
        pitch == c.Pitch - yoffset * factor
        alpha == degree_to_radian(yaw)
        beta == degree_to_radian(pitch)
        distance == distance_from_camera_to_target(c.Position, target_position)
        x == target_position[1] - (3 * MulS(MulS(distance, cos(alpha)), cos(beta))) \div 2
        y == target_position[2] - MulS(distance, sin(beta))
        z == target_position[3] - MulS(MulS(distance, sin(alpha)), cos(beta))
    IN  updateCameraVectors(
            [c EXCEPT !.Yaw = yaw, !.Pitch = pitch,
                      !.Position = IF distance = NaNDist THEN NaNVec ELSE vec3(x, y, z)])

\* move_camera_in_ellipsoid with the pitch clamp of ProcessMouseMovement.
move_camera_in_ellipsoid_Clamped(c, xoffset, yoffset, target_position) ==
    LET factor == (c.MouseSensitivity * (DegScale \div 10)) \div DegScale
        yaw == c.Yaw - xoffset * factor
        pitch0 == c.Pitch - yoffset * factor
        pitch1 == IF pitch0 > 89 * DegScale THEN 89 * DegScale ELSE pitch0
        pitch == IF pitch1 < -89 * DegScale THEN -89 * DegScale ELSE pitch1
        alpha == degree_to_radian(yaw)
        beta == degree_to_radian(pitch)
        distance == distance_from_camera_to_target(c.Position, target_position)
        x == target_position[1] - MulS(MulS(distance, cos(alpha)), cos(beta))
        y == target_position[2] - MulS(distance, sin(beta))
        z == target_position[3] - MulS(MulS(distance, sin(alpha)), cos(beta))
    IN  updateCameraVectors(
            [c EXCEPT !.Yaw = yaw, !.Pitch = pitch,
                      !.Position = IF distance = NaNDist THEN NaNVec ELSE vec3(x, y, z)])

move_camera_in_ellipsoid(c, xoffset, yoffset, target_position) ==
    LET factor == (c.MouseSensitivity * (DegScale \div 10)) \div DegScale
        yaw == c.Yaw - xoffset * factor
        pitch == c.Pitch - yoffset * factor
        alpha == degree_to_radian(yaw)
        beta == degree_to_radian(pitch)
        distance == distance_from_camera_to_target(c.Position, target_position)
        x == target_position[1] - MulS(MulS(distance, cos(alpha)), cos(beta))
        y == target_position[2] - MulS(distance, sin(beta))
        z == target_position[3] - MulS(MulS(distance, sin(alpha)), cos(beta))
    IN  updateCameraVectors(
            [c EXCEPT !.Yaw = yaw, !.Pitch = pitch,
                      !.Position = IF distance = NaNDist THEN NaNVec ELSE vec3(x, y, z)])

\* ProcessMouseScroll without the lower clamp.
ProcessMouseScroll_NoLowerClamp(c, yoffset) ==
    LET z1 == IF c.Zoom >= Scale /\ c.Zoom <= 45 * Scale THEN c.Zoom - yoffset ELSE c.Zoom
        z3 == IF z1 >= 45 * Scale THEN 45 * Scale ELSE z1
    IN  [c EXCEPT !.Zoom = z3]

\* ProcessMouseScroll that subtracts only strictly inside the range.
ProcessMouseScroll_StrictGuard(c, yoffset) ==
    LET z1 == IF c.Zoom > Scale /\ c.Zoom < 45 * Scale THEN c.Zoom - yoffset ELSE c.Zoom
        z2 == IF z1 <= Scale THEN Scale ELSE z1
        z3 == IF z2 >= 45 * Scale THEN 45 * Scale ELSE z2
    IN  [c EXCEPT !.Zoom = z3]

ProcessMouseScroll(c, yoffset) ==
    LET z1 == IF c.Zoom >= Scale /\ c.Zoom <= 45 * Scale THEN c.Zoom - yoffset ELSE c.Zoom
        z2 == IF z1 <= Scale THEN Scale ELSE z1
        z3 == IF z2 >= 45 * Scale THEN 45 * Scale ELSE z2
    IN  [c EXCEPT !.Zoom = z3]

\* ------------------------------------------------------------------------
\* The state machine
\* ------------------------------------------------------------------------
NoTarget == vec3(0, 0, 0)

Store(c) ==
    /\ Position' = c.Position /\ Front' = c.Front /\ Up' = c.Up /\ Right' = c.Right
    /\ WorldUp' = c.WorldUp /\ Yaw' = c.Yaw /\ Pitch' = c.Pitch
    /\ MovementSpeed' = c.MovementSpeed /\ MouseSensitivity' = c.MouseSensitivity
    /\ Zoom' = c.Zoom

Call(op, dir, x, y, target, constrain) ==
    /\ steps < MaxSteps
    /\ steps' = steps + 1
    /\ last' = [op |-> op, dir |-> dir, x |-> x, y |-> y, target |-> target,
                constrain |-> constrain]
    /\ prev' = [Position |-> Position, Yaw |-> Yaw, Pitch |-> Pitch, Zoom |-> Zoom]

Init ==
    /\ \E a \in CtorArgs : \E c \in {Camera(a.position, a.up, a.yaw, a.pitch)} :
          /\ Position = c.Position /\ Front = c.Front /\ Up = c.Up /\ Right = c.Right
          /\ WorldUp = c.WorldUp /\ Yaw = c.Yaw /\ Pitch = c.Pitch
          /\ MovementSpeed = c.MovementSpeed /\ MouseSensitivity = c.MouseSensitivity
          /\ Zoom = c.Zoom
          /\ prev = [Position |-> c.Position, Yaw |-> c.Yaw, Pitch |-> c.Pitch, Zoom |-> c.Zoom]
    /\ last = [op |-> "Camera", dir |-> "", x |-> 0, y |-> 0, target |-> NoTarget,
               constrain |-> FALSE]
    /\ steps = 0

DoProcessKeyboard ==
    \E direction \in Directions, deltaTime \in DeltaTimes :
        /\ Call("ProcessKeyboard", direction, deltaTime, 0, NoTarget, FALSE)
        /\ \E c \in {ProcessKeyboard(camera, direction, deltaTime)} : Store(c)

DoProcessMouseMovement ==
    \E o \in MouseOffsets, constrainPitch \in BOOLEAN :
        /\ Call("ProcessMouseMovement", "", o[1], o[2], NoTarget, constrainPitch)
        /\ \E c \in {ProcessMouseMovement(camera, o[1], o[2], constrainPitch)} : Store(c)

DoMoveCameraInSphere ==
    \E o \in OrbitOffsets, target_position \in Targets :
        /\ Call("move_camera_in_sphere", "", o[1], o[2], target_position, FALSE)
        /\ \E c \in {move_camera_in_sphere(camera, o[1], o[2], target_position)} : Store(c)

DoMoveCameraInEllipsoid ==
    \E o \in OrbitOffsets, target_position \in Targets :
        /\ Call("move_camera_in_ellipsoid", "", o[1], o[2], target_position, FALSE)
        /\ \E c \in {move_camera_in_ellipsoid(camera, o[1], o[2], target_position)} : Store(c)

DoProcessMouseScroll ==
    \E yoffset \in ScrollDeltas :
        /\ Call("ProcessMouseScroll", "", 0, yoffset, NoTarget, FALSE)
        /\ \E c \in {ProcessMouseScroll(camera, yoffset)} : Store(c)

Next ==
    \/ DoProcessKeyboard
    \/ DoProcessMouseMovement
    \/ DoMoveCameraInSphere
    \/ DoMoveCameraInEllipsoid
    \/ DoProcessMouseScroll

Spec == Init /\ [][Next]_vars

\* ------------------------------------------------------------------------
\* Vocabulary of the properties
\* ------------------------------------------------------------------------
\* What "up to rounding" means in the model: 10^-5, ten units of Scale,
\* absolute for directions and relative to the length for positions.
Eps == Scale \div 100000
Tol(d) == Eps + MulS(d, Eps)

Finite(v) == ~IsNaN(v)
\* float ==, under which NaN equals nothing
Eq(a, b) == Finite(a) /\ Finite(b) /\ a = b

MinPitch == -89 * DegScale
MaxPitch == 89 * DegScale
PitchInRange(p) == MinPitch <= p /\ p <= MaxPitch
Clamp(v, lo, hi) == IF v < lo THEN lo ELSE IF v > hi THEN hi ELSE v

Unit(v) == Finite(v) /\ Abs(dot(v, v) - Scale) <= Eps
Perp(a, b) == Finite(a) /\ Finite(b) /\ Abs(dot(a, b)) <= Eps
Orthonormal ==
    /\ Unit(Front) /\ Unit(Right) /\ Unit(Up)
    /\ Perp(Front, Right) /\ Perp(Front, Up) /\ Perp(Right, Up)

IsOrbit == last.op \in {"move_camera_in_sphere", "move_camera_in_ellipsoid"}

\* The object as it was when the last call was made (no call changes
\* WorldUp, MovementSpeed or MouseSensitivity; the basis in it is the one
\* updateCameraVectors derives).
prevCamera ==
    updateCameraVectors(
        [camera EXCEPT !.Position = prev.Position, !.Yaw = prev.Yaw,
                       !.Pitch = prev.Pitch, !.Zoom = prev.Zoom])

\* Distance to the last call's target before and after the call.
distBefore == distance_from_camera_to_target(prev.Position, last.target)
distAfter == distance_from_camera_to_target(Position, last.target)

\* ------------------------------------------------------------------------
\* C1
\* ------------------------------------------------------------------------
\* C1: after construction and after every call, whatever the scroll deltas
\* and the calls in between, 1 <= Zoom <= 45.
C1_ZoomInRange == Scale <= Zoom /\ Zoom <= 45 * Scale

\* A scroll whose plain difference leaves the range, made after another call.
C1_Witness ==
    /\ last.op = "ProcessMouseScroll" /\ steps = 2
    /\ (prev.Zoom - last.y < Scale \/ prev.Zoom - last.y > 45 * Scale)

\* ------------------------------------------------------------------------
\* C2
\* ------------------------------------------------------------------------
\* C2: after a ProcessMouseMovement call with constrainPitch, Pitch lies in
\* [-89, 89] whatever it was before, and is the clamp of the sum of the old
\* Pitch and the scaled offset (the clamp follows the addition).
C2_ConstrainedPitch ==
    (last.op = "ProcessMouseMovement" /\ last.constrain) =>
        /\ PitchInRange(Pitch)
        /\ Pitch = Clamp(prev.Pitch + last.y * MouseSensitivity, MinPitch, MaxPitch)

\* A constrained mouse-look made when Pitch was outside the range.
C2_Witness ==
    /\ last.op = "ProcessMouseMovement" /\ last.constrain
    /\ ~PitchInRange(prev.Pitch)

\* ------------------------------------------------------------------------
\* C3
\* ------------------------------------------------------------------------
\* C3: in every state Front, Right and Up are the basis that
\* updateCameraVectors derives from the current Yaw, Pitch and WorldUp.
C3_BasisNeverStale ==
    LET c == updateCameraVectors(camera)
    IN  Front = c.Front /\ Right = c.Right /\ Up = c.Up

\* An orbit call that turned the camera.
C3_Witness ==
    /\ IsOrbit /\ (Yaw # prev.Yaw \/ Pitch # prev.Pitch)
    /\ Front # prevCamera.Front

\* ------------------------------------------------------------------------
\* C4
\* ------------------------------------------------------------------------
\* C4, as stated: in every state Front, Right and Up are of unit length and
\* pairwise perpendicular, also where Front is parallel to WorldUp.
C4_AlwaysOrthonormal == Orthonormal

\* C4, amended: Front is always of unit length; Right and Up are of unit
\* length and the three are pairwise perpendicular exactly when
\* cross(Front, WorldUp) is not the zero vector, and Right and Up are NaN
\* when it is.
C4_OrthonormalUnlessParallel ==
    /\ Unit(Front)
    /\ IF cross(Front, WorldUp) = vec3(0, 0, 0)
       THEN IsNaN(Right) /\ IsNaN(Up)
       ELSE Orthonormal

\* An orbit call that took Pitch beyond -89 and left an orthonormal basis.
C4_Witness == IsOrbit /\ Pitch < MinPitch /\ Orthonormal

\* ------------------------------------------------------------------------
\* C5
\* ------------------------------------------------------------------------
\* C5: a move_camera_in_sphere call made at a finite position leaves the
\* distance to its target unchanged up to rounding, and leaves a camera
\* that is at the target at the target.
C5_SphereKeepsDistance ==
    (last.op = "move_camera_in_sphere" /\ Finite(prev.Position)) =>
        /\ Finite(Position)
        /\ Abs(distAfter - distBefore) <= Tol(distBefore)
        /\ (prev.Position = last.target => Position = last.target)

\* A second call in a row that moved a camera lying away from its target.
C5_Witness ==
    /\ last.op = "move_camera_in_sphere" /\ steps = 2
    /\ Finite(prev.Position) /\ distBefore > Scale
    /\ Position # prev.Position

\* ------------------------------------------------------------------------
\* C6
\* ------------------------------------------------------------------------
KeyboardPosition(direction, deltaTime) ==
    ProcessKeyboard(camera, direction, deltaTime).Position
RoundTrip(there, back, deltaTime) ==
    Eq(ProcessKeyboard(ProcessKeyboard(camera, there, deltaTime), back, deltaTime).Position,
       Position)
Velocity(deltaTime) == MulS(MovementSpeed, deltaTime)
AlongFront(deltaTime) ==
    /\ Eq(KeyboardPosition("FORWARD", deltaTime), VAdd(Position, VScale(Front, Velocity(deltaTime))))
    /\ Eq(KeyboardPosition("BACKWARD", deltaTime), VSub(Position, VScale(Front, Velocity(deltaTime))))
AlongRight(deltaTime) ==
    /\ Eq(KeyboardPosition("RIGHT", deltaTime), VAdd(Position, VScale(Right, Velocity(deltaTime))))
    /\ Eq(KeyboardPosition("LEFT", deltaTime), VSub(Position, VScale(Right, Velocity(deltaTime))))

\* C6, as stated: from every state FORWARD then BACKWARD, and LEFT then
\* RIGHT, with the same dt return Position to its value, and each call
\* displaces Position by MovementSpeed * dt along Front or Right.
C6_RoundTripAlways ==
    \A dt \in DeltaTimes :
        /\ RoundTrip("FORWARD", "BACKWARD", dt) /\ AlongFront(dt)
        /\ RoundTrip("LEFT", "RIGHT", dt) /\ AlongRight(dt)

\* C6, amended: from a finite Position, FORWARD then BACKWARD round-trips
\* and displaces along Front; LEFT then RIGHT round-trips and displaces
\* along Right when Right is defined; when Right is NaN a LEFT or a RIGHT
\* call makes Position NaN.
C6_RoundTripWhereDefined ==
    Finite(Position) =>
        \A dt \in DeltaTimes :
            /\ RoundTrip("FORWARD", "BACKWARD", dt) /\ AlongFront(dt)
            /\ Finite(Right) => RoundTrip("LEFT", "RIGHT", dt) /\ AlongRight(dt)
            /\ IsNaN(Right) => /\ IsNaN(KeyboardPosition("LEFT", dt))
                               /\ IsNaN(KeyboardPosition("RIGHT", dt))

\* A keyboard call that moved the camera after a look change.
C6_Witness ==
    /\ last.op = "ProcessKeyboard" /\ Finite(Position)
    /\ Position # prev.Position
    /\ Front \notin {Camera(a.position, a.up, a.yaw, a.pitch).Front : a \in CtorArgs}

\* ------------------------------------------------------------------------
\* C7
\* ------------------------------------------------------------------------
\* C7: after a ProcessMouseScroll call Zoom is the old Zoom minus the delta,
\* clamped to [1, 45].
C7_ScrollIsClampAfterUpdate ==
    last.op = "ProcessMouseScroll" =>
        Zoom = Clamp(prev.Zoom - last.y, Scale, 45 * Scale)

\* ProcessMouseScroll(50) from Zoom = 45 has given Zoom = 1.
C7_Witness ==
    /\ last.op = "ProcessMouseScroll" /\ last.y = 50 * Scale
    /\ prev.Zoom = 45 * Scale /\ Zoom = Scale

C10_OrbitFacesTarget ==
    (IsOrbit /\ Finite(prev.Position) /\ distBefore > 0) =>
        /\ MaxAbs(VSub(VSub(last.target, VScale(frontOf(Yaw, Pitch), distBefore)), Position))
               <= Tol(distBefore)
        /\ MaxAbs(VSub(VAdd(Position, VScale(Front, distBefore)), last.target))
               <= Tol(distBefore)

====
